---- MODULE Spec2Model ----
(***************************************************************************)
(* docintel: the document upload -> background processing -> status        *)
(* tracking pipeline (app/features/documents, app/models, app/core) and    *)
(* the cursor pagination of app/core/query_helpers.py.                     *)
(*                                                                         *)
(* Spec       the pipeline: Document rows, Task rows, the Celery queue,    *)
(*            the worker's process_document job (one action per commit),   *)
(*            the hourly sweep and the HTTP handlers that write documents. *)
(* SpecCursor the cursor pagination over a table of documents.             *)
(* SpecCache  the HTTP handlers of several tenants over the documents      *)
(*            table and the documents_v2 response cache, one action per    *)
(*            await of a handler.                                          *)
(* SpecApi    the HTTP handlers that write documents, without the worker.  *)
(* SpecCacheManager  the operations of app/core/cache.py CacheManager over *)
(*            a Redis backend that can be uninitialised or unreachable.    *)
(* SpecLive   the pipeline under fair scheduling of the worker, the sweep  *)
(*            and the clock.                                               *)
(* SpecRateLimit  check_rate_limit of app/core/rate_limit.py over the      *)
(*            counters of that backend, with the seconds passing.          *)
(***************************************************************************)
EXTENDS Integers, Sequences, FiniteSets, TLC

VARIABLES docs, tasks, jobs, nextJob, now, resp, table, clk, iter, page,
          documents, cache, calls, out, commits, invalidated,
          client, redis, ret, rl

vars ==
    <<docs, tasks, jobs, nextJob, now, resp, table, clk, iter, page,
      documents, cache, calls, out, commits, invalidated,
      client, redis, ret, rl>>

pipelineVars == <<docs, tasks, jobs, nextJob, now, resp>>

cursorVars == <<table, clk, iter, page>>

cacheVars == <<documents, cache, calls, out, commits, invalidated>>

managerVars == <<client, redis, ret>>

rateVars == <<rl>>

(***************************************************************************)
(* Bounds of the model.                                                    *)
(***************************************************************************)
MaxDocs == 1
MaxJobs == 2
MaxClock == 2
MaxDeliver == 2
MaxBulk == 1

DocIds == 1..MaxDocs
\* An id no Document row ever has (a bulk request may name it).
NoDoc == 0
JobIds == 1..MaxJobs

(***************************************************************************)
(* Program constants.                                                      *)
(***************************************************************************)
\* Task.max_retries column default.
TaskMaxRetries == 3
\* Celery's per-task max_retries (Task.max_retries of the celery task).
CeleryMaxRetries == 3
\* The sweep's staleness threshold, timedelta(hours=1); the clock counts hours.
StaleHours == 1
\* text_content[:10000]
MaxTextLen == 10000

\* create_document: the size limit in bytes and the allowed suffixes.
MaxUploadSize == 10485760

AllowedExtensions == {".pdf", ".docx", ".txt", ".md"}

\* NULL of a nullable integer or timestamp column.
Null == -1

Statuses == {"pending", "processing", "completed", "failed", "archived"}

\* DocumentService._classify_document_type on the uploaded file: the model's
\* first document is a PDF, the others are plain text.
DocumentType(d) == IF d = 1 THEN "pdf" ELSE "text"

\* The length of the text an extractor finds in d's blob (the PDF's is over
\* the stored maximum).
BlobTextLen(d) == IF d = 1 THEN 12000 ELSE 7

\* The page count of d's PDF blob.
BlobPages(d) == 2

\* A documents row, with the columns the pipeline, the sweep and the bulk
\* actions read or write (title, filename, ... are left out).  Of
\* processing_completed_at, which nothing reads, and of error_message only
\* what was written is kept: "null" or the kind of value.
\* row: "none" before the INSERT, "live" while the row exists, "gone" after a
\* hard delete (ids are uuids, never used again).
NoDocument ==
    [row |-> "none", status |-> "pending", processing_started_at |-> Null,
     processing_completed_at |-> "null", error_message |-> "null",
     text_content |-> Null, page_count |-> Null, is_deleted |-> FALSE]

\* rows: the number of rows of this task_id in the tasks table.
NoTask ==
    [rows |-> 0, status |-> "pending", progress |-> 0,
     retry_count |-> 0, max_retries |-> TaskMaxRetries, resource_id |-> NoDoc]

\* A queue message / Celery request: st is where the job is, retries is
\* request.retries, deliveries counts the times a worker picked it up, pc is
\* the next commit of the running attempt, text and pages are the attempt's
\* local variables text_content and page_count.
NoJob ==
    [st |-> "none", doc |-> NoDoc, retries |-> 0, deliveries |-> 0,
     pc |-> "none", text |-> Null, pages |-> Null]

\* The response of the HTTP request the last step handled (NoResp after a
\* step of the worker, the sweep or the clock): the handler, the status code,
\* the document it is about and, for a bulk request, the BulkOperationResult
\* counters.
NoResp ==
    [op |-> "none", code |-> 0, doc |-> NoDoc, total_requested |-> 0,
     succeeded |-> 0, failed |-> 0, skipped |-> 0]

(***************************************************************************)
(* Cursor pagination: the rows the listing query selects, and the cursor   *)
(* token.                                                                  *)
(***************************************************************************)
MaxRows == 3

MaxTs == 3

MaxLimit == 2

RowIds == 1..MaxRows

\* created_at of a row that is not in the table.
NoTs == 0

\* What the database answers to a timestamp literal it cannot read.
BadTs == -1

Limits == 1..MaxLimit

\* str(created_at), as a string of characters; the digits are 0..9.
StrOfTimestamp(ts) == <<ts \div 10, ts % 10>>

\* The database reading the bound string back as a timestamp.
TimestampOfStr(s) ==
    IF Len(s) = 2 /\ s[1] \in 0..9 /\ s[2] \in 0..9
    THEN s[1] * 10 + s[2]
    ELSE BadTs

\* A cursor string, by what base64-decoding and JSON-parsing make of it:
\* kind "none" is no cursor (None or the empty string), "not_base64" and
\* "not_json" fail in decode_cursor, "json_array" stands for the JSON values
\* that are not objects ([], 123, null), "json_object" carries the keys it
\* has.
NoCursor ==
    [kind |-> "none", has_last_value |-> FALSE, last_value |-> <<>>,
     last_id |-> <<>>, direction |-> "next"]

\* A Python value by its type and the text str() gives for it.
PyValue(type, text) == [type |-> type, text |-> text]

\* str(v): a str, with the text of v.
str(v) == PyValue("str", v.text)

\* json.dumps(..., default=str) on one value: a str is written as it is,
\* a value JSON has no type for is written as the string str() makes of it.
JsonDefault(v) == IF v.type = "str" THEN v ELSE str(v)

\* json.dumps(data, default=str) then urlsafe base64: the token holds the
\* JSON strings of the three keys.
encode_cursor(data) ==
    [kind |-> "json_object", has_last_value |-> TRUE,
     last_value |-> JsonDefault(data.last_value).text,
     last_id |-> JsonDefault(data.last_id).text,
     direction |-> data.direction]

\* What decode_cursor returns when it raises.
NoDict ==
    [kind |-> "none", has_last_value |-> FALSE,
     last_value |-> PyValue("str", <<>>), last_id |-> PyValue("str", <<>>),
     direction |-> "next"]

\* decode_cursor: ValueError for what does not base64-decode or JSON-parse,
\* else whatever JSON value the string holds; the JSON strings of an object
\* come back as Python str.
decode_cursor(cursor) ==
    IF cursor.kind \in {"not_base64", "not_json"}
    THEN [raised |-> "ValueError", value |-> NoDict]
    ELSE [raised |-> "none",
          value |-> [kind |-> cursor.kind,
                     has_last_value |-> cursor.has_last_value,
                     last_value |-> PyValue("str", cursor.last_value),
                     last_id |-> PyValue("str", cursor.last_id),
                     direction |-> cursor.direction]]

\* Before the first request: no iteration, no response.
NoIter ==
    [state |-> "idle", limit |-> 1, cursor |-> NoCursor, seen |-> <<>>,
     snap |-> {}]

NoPage ==
    [cursor |-> NoCursor, limit |-> 1, raised |-> FALSE, items |-> <<>>,
     next_cursor |-> NoCursor, prev_cursor |-> NoCursor]

(***************************************************************************)
(* Tenants and the response cache: the documents as the handlers of        *)
(* router.py and router_v2.py see them, the Redis namespace documents_v2,  *)
(* and the requests in flight.                                             *)
(***************************************************************************)
MaxTenants == 2

MaxIds == 2

MaxVer == 1

MaxListers == 1

MaxWriters == 1

MaxCommits == 1

Tenants == 1..MaxTenants

Ids == 1..MaxIds

\* The clients with a request in flight: those that list and those that
\* send bulk requests.
Listers == 1..MaxListers

Writers == (MaxListers + 1)..(MaxListers + MaxWriters)

Clients == Listers \cup Writers

\* tenant_id of a row that is not in the table.
NoTenant == 0

\* A documents row: its tenant, is_deleted, and ver, which counts the
\* committed writes to its other columns (status, title, ...).
NoRow == [tenant |-> NoTenant, is_deleted |-> FALSE, ver |-> 0]

\* The cache key of a list request: f"{tenant_id}:cursor:{cursor}:{limit}:
\* {search}:{status}".  The list requests of the model all have no cursor,
\* the default limit, no search and no status, so the tenant tells the keys
\* apart.
CacheKey_NoTenant(t) == 1

CacheKey(t) == t

CacheKeys == {CacheKey(t) : t \in Tenants}

\* A key of the namespace without a value.
NoEntry == [present |-> FALSE, items |-> {}, epoch |-> 0]

\* A client with no request in flight.
NoCall == [pc |-> "idle", tenant |-> NoTenant, items |-> {}, keys |-> {},
           commit |-> 0]

\* The response that the last step sent, if it sent one.
NoOut ==
    [op |-> "none", tenant |-> NoTenant, code |-> 0, hit |-> FALSE,
     ids |-> {}]

\* The response of a bulk request that came to its end.
BulkResponse == [NoOut EXCEPT !.op = "bulk", !.code = 200]

(***************************************************************************)
(* The cache manager: data.                                                *)
(***************************************************************************)
MaxCount == 3

RedisCacheTtl == 300

RateLimitWindow == 60

\* check_rate_limit: key = f"{identifier}:{limit_type}".
RateLimitKey(identifier, limit_type) == identifier \o ":" \o limit_type

\* RATE_LIMITS: the tier of the model.
RateLimitRequests == 5

RATE_LIMITS ==
    [auth |-> [requests |-> RateLimitRequests, window |-> RateLimitWindow,
               key_prefix |-> "rl_auth"]]

Identifiers == {"u1"}

LimitTypes == {"auth"}

Namespaces == {"documents_v2", "rl_auth"}

KeyNames == {RateLimitKey(i, t) : i \in Identifiers, t \in LimitTypes}

\* CacheManager._build_key: docintel:{namespace}:{key}.
build_key(namespace, key) == "docintel:" \o namespace \o ":" \o key

RedisKeys == {build_key(n, k) : n \in Namespaces, k \in KeyNames}

\* The decimal text of the integers the backend stores and returns.
Numerals == <<"0", "1", "2", "3", "4", "5", "6", "7">>

IntStr(n) ==
    CASE n \in 0..(Len(Numerals) - 1) -> Numerals[n + 1]
      [] n = -1 -> "-1"
      [] n = -2 -> "-2"
      [] n = RateLimitWindow -> "60"
      [] n = RedisCacheTtl -> "300"

StrInt(text) == CHOOSE n \in 0..(Len(Numerals) - 1) : IntStr(n) = text

\* Python values a CacheManager operation returns or raises.
None == PyValue("NoneType", "None")

PyBool(b) == PyValue("bool", IF b THEN "True" ELSE "False")

PyInt(n) == PyValue("int", IntStr(n))

RuntimeError == PyValue("RuntimeError", "Cache not initialized. Call init() first.")

ConnectionError == PyValue("ConnectionError", "Error connecting to redis")

\* The values callers cache: JSON numbers.
CacheValues == {PyInt(n) : n \in 0..MaxCount}

\* json.dumps(value, default=str) and json.loads on those values.
JsonDumps(v) == IF v.type = "int" THEN v.text ELSE "\"" \o JsonDefault(v).text \o "\""

JsonLoads(text) == CHOOSE v \in CacheValues : JsonDumps(v) = text

\* A key of the backend: absent (TTL -2), or a text with a TTL in seconds
\* (-1: no expiry).
NoValue == [present |-> FALSE, text |-> "", ttl |-> -2]

\* The outcome of the last CacheManager call: the operation, the state of
\* the client when it was called, and what it returned or raised.
NoRet == [op |-> "none", client |-> "none", raised |-> FALSE, value |-> None]

\* The ttl argument of set and increment: 0 stands for None.
TtlArgs == {0, RateLimitWindow}

\* The rate limiter of one identifier and limit type: what the last call of
\* check_rate_limit answered (status 200 with the rate_limit_info dict, or
\* the HTTPException 429), and, for the counter that exists now, the seconds
\* since the call that created it (age), the calls admitted since then
\* (admitted) and those among them that were admitted because the backend
\* could not be reached (failed_open).
NoRateLimitInfo ==
    [status |-> 0, limit |-> 0, remaining |-> 0, reset |-> 0, current |-> 0,
     retry_after |-> 0]

NoRateLimit ==
    [out |-> NoRateLimitInfo, age |-> 0, admitted |-> 0, failed_open |-> 0]

\* The seconds one step of the clock takes, and the bounds on the age of a
\* counter and on its value.
TickSeconds == 30

MaxAge == 120

RateMaxCount == 7

(***************************************************************************)
(* The initial state.                                                      *)
(***************************************************************************)
Init ==
    /\ docs = [d \in DocIds |-> NoDocument]
    /\ tasks = [j \in JobIds |-> NoTask]
    /\ jobs = [j \in JobIds |-> NoJob]
    /\ nextJob = 0
    /\ now = 0
    /\ resp = NoResp
    /\ table = [r \in RowIds |-> NoTs]
    /\ clk = 1
    /\ iter = NoIter
    /\ page = NoPage
    /\ documents = [d \in Ids |-> NoRow]
    /\ cache = [k \in CacheKeys |-> NoEntry]
    /\ calls = [c \in Clients |-> NoCall]
    /\ out = NoOut
    /\ commits = 0
    /\ invalidated = 0
    /\ client = "none"
    /\ redis = [k \in RedisKeys |-> NoValue]
    /\ ret = NoRet
    /\ rl = NoRateLimit

\* process_document.delay(document_id, tenant_id): a new message, with a new
\* task id, on the queue.
Enqueue(js, j, d) ==
    [js EXCEPT ![j] = [NoJob EXCEPT !.st = "queued", !.doc = d]]

Min(a, b) == IF a < b THEN a ELSE b

(***************************************************************************)
(* The worker: process_document / _process_document_async.                 *)
(***************************************************************************)

\* Mutant of TaskIdTaken: no unique constraint on task_id.
TaskIdTaken_NoConstraint(j) == FALSE

\* tasks.task_id is unique=True: a second INSERT of the same Celery task id
\* raises IntegrityError at the commit.
TaskIdTaken(j) == tasks[j].rows > 0

\* Mutant of HandleException: the retry is scheduled before the failure is
\* committed (nothing is written to the Document and Task rows).
HandleException_RetryBeforeCommit(j, fetched) ==
    LET d == jobs[j].doc
        t == tasks[j]
        dead == [jobs[j] EXCEPT !.st = "failed", !.pc = "none"]
    IN  IF fetched /\ docs[d].row # "live"
        THEN /\ jobs' = [jobs EXCEPT ![j] = dead]
             /\ UNCHANGED <<docs, tasks>>
        ELSE /\ docs' = docs
             /\ tasks' = tasks
             /\ jobs' = IF t.retry_count < t.max_retries
                           /\ jobs[j].retries < CeleryMaxRetries
                        THEN [jobs EXCEPT ![j].st = "retry",
                                          ![j].pc = "none",
                                          ![j].retries = @ + 1]
                        ELSE [jobs EXCEPT ![j] = dead]

\* The except block of _process_document_async after a non-database
\* exception, fetched telling whether `document` was assigned. A fetched
\* document whose row was hard-deleted meanwhile makes the handler's commit
\* fail (UPDATE of zero rows): nothing is written and retry is never reached.
\* task_instance.retry schedules the same task id again unless request.retries
\* has reached the Celery task's max_retries, when it raises the exception.
HandleException(j, fetched) ==
    LET d == jobs[j].doc
        t == tasks[j]
        dead == [jobs[j] EXCEPT !.st = "failed", !.pc = "none"]
    IN  IF fetched /\ docs[d].row # "live"
        THEN /\ jobs' = [jobs EXCEPT ![j] = dead]
             /\ UNCHANGED <<docs, tasks>>
        ELSE /\ docs' = IF fetched
                        THEN [docs EXCEPT ![d].status = "failed",
                                          ![d].error_message = "exception"]
                        ELSE docs
             /\ IF t.retry_count < t.max_retries
                THEN /\ tasks' = [tasks EXCEPT ![j].status = "retry",
                                               ![j].retry_count = t.retry_count + 1]
                     /\ jobs' = IF jobs[j].retries >= CeleryMaxRetries
                                THEN [jobs EXCEPT ![j] = dead]
                                ELSE [jobs EXCEPT ![j].st = "retry",
                                                  ![j].pc = "none",
                                                  ![j].retries = @ + 1]
                ELSE /\ tasks' = [tasks EXCEPT ![j].status = "failure"]
                     /\ jobs' = [jobs EXCEPT ![j] = dead]

\* A worker picks the message up (first delivery, scheduled retry or
\* redelivery) and runs lines 417-429: INSERT the Task row and commit. On a
\* task id that already has a row the commit raises; in the except block
\* `document` is None and the never-flushed Task object has retry_count None,
\* so `retry_count < max_retries` raises TypeError: the job ends failed with
\* nothing written and no retry.
StartAttempt(j) ==
    /\ jobs[j].st \in {"queued", "retry"}
    /\ IF TaskIdTaken(j)
       THEN /\ jobs' = [jobs EXCEPT ![j].st = "failed", ![j].pc = "none",
                                    ![j].deliveries = @ + 1]
            /\ tasks' = tasks
       ELSE /\ jobs' = [jobs EXCEPT ![j].st = "running", ![j].pc = "fetch",
                                    ![j].deliveries = @ + 1,
                                    ![j].text = Null, ![j].pages = Null]
            /\ tasks' = [tasks EXCEPT ![j] =
                            [rows |-> tasks[j].rows + 1, status |-> "started",
                             progress |-> 0, retry_count |-> 0,
                             max_retries |-> TaskMaxRetries,
                             resource_id |-> jobs[j].doc]]
    /\ resp' = NoResp
    /\ UNCHANGED <<docs, nextJob, now, cursorVars, cacheVars, managerVars, rateVars>>

\* Lines 431-444: select the document by id; not found raises ValueError into
\* the except block; found is set processing and committed.
FetchDocument(j) ==
    LET d == jobs[j].doc
    IN  /\ jobs[j].st = "running"
        /\ jobs[j].pc = "fetch"
        /\ IF docs[d].row # "live"
           THEN HandleException(j, FALSE)
           ELSE /\ docs' = [docs EXCEPT ![d].status = "processing",
                                        ![d].processing_started_at = now]
                /\ tasks' = [tasks EXCEPT ![j].progress = 10]
                /\ jobs' = [jobs EXCEPT ![j].pc = "extract"]
        /\ resp' = NoResp
        /\ UNCHANGED <<nextJob, now, cursorVars, cacheVars, managerVars, rateVars>>

\* Mutant of ExtractText: a failing extraction raises into the except block
\* of the pipeline.
ExtractText_FailureRaises(j) ==
    /\ jobs[j].st = "running"
    /\ jobs[j].pc = "extract"
    /\ \E ok \in BOOLEAN :
          IF ok
          THEN /\ jobs' = [jobs EXCEPT ![j].pc = "pages",
                                       ![j].text = BlobTextLen(jobs[j].doc)]
               /\ tasks' = [tasks EXCEPT ![j].progress = 50]
               /\ docs' = docs
          ELSE HandleException(j, TRUE)
    /\ resp' = NoResp
    /\ UNCHANGED <<nextJob, now, cursorVars, cacheVars, managerVars, rateVars>>

\* Lines 446-451 with extract_text_from_file: the blob's text, or None when
\* storage.get or the extractor fails (caught inside).
ExtractText(j) ==
    /\ jobs[j].st = "running"
    /\ jobs[j].pc = "extract"
    /\ \E ok \in BOOLEAN :
          jobs' = [jobs EXCEPT ![j].pc = "pages",
                               ![j].text = IF ok THEN BlobTextLen(jobs[j].doc)
                                           ELSE Null]
    /\ tasks' = [tasks EXCEPT ![j].progress = 50]
    /\ resp' = NoResp
    /\ UNCHANGED <<docs, nextJob, now, cursorVars, cacheVars, managerVars, rateVars>>

\* Lines 453-459 with count_pdf_pages: for a PDF the page count, or None
\* when reading it fails (caught inside).
CountPages(j) ==
    /\ jobs[j].st = "running"
    /\ jobs[j].pc = "pages"
    /\ \E ok \in BOOLEAN :
          jobs' = [jobs EXCEPT ![j].pc = "final",
                               ![j].pages =
                                   IF DocumentType(jobs[j].doc) = "pdf" /\ ok
                                   THEN BlobPages(jobs[j].doc) ELSE Null]
    /\ tasks' = [tasks EXCEPT ![j].progress = 70]
    /\ resp' = NoResp
    /\ UNCHANGED <<docs, nextJob, now, cursorVars, cacheVars, managerVars, rateVars>>

\* Mutant of FinalUpdate: the Document is committed as completed, the Task
\* row is left for a later commit.
FinalUpdate_DocumentOnly(j) ==
    LET d == jobs[j].doc
        text == jobs[j].text
    IN  /\ jobs[j].st = "running"
        /\ jobs[j].pc = "final"
        /\ IF docs[d].row # "live"
           THEN /\ jobs' = [jobs EXCEPT ![j].st = "failed", ![j].pc = "none"]
                /\ UNCHANGED <<docs, tasks>>
           ELSE /\ docs' = [docs EXCEPT
                              ![d].text_content =
                                  IF text > 0 THEN Min(text, MaxTextLen) ELSE Null,
                              ![d].page_count = jobs[j].pages,
                              ![d].status = "completed",
                              ![d].processing_completed_at = "set"]
                /\ tasks' = tasks
                /\ jobs' = [jobs EXCEPT ![j].pc = "return"]
        /\ resp' = NoResp
        /\ UNCHANGED <<nextJob, now, cursorVars, cacheVars, managerVars, rateVars>>

\* Lines 461-477: the final update and its commit. The UPDATE of a row that
\* was hard-deleted meanwhile fails and the job ends with nothing written.
FinalUpdate(j) ==
    LET d == jobs[j].doc
        text == jobs[j].text
    IN  /\ jobs[j].st = "running"
        /\ jobs[j].pc = "final"
        /\ IF docs[d].row # "live"
           THEN /\ jobs' = [jobs EXCEPT ![j].st = "failed", ![j].pc = "none"]
                /\ UNCHANGED <<docs, tasks>>
           ELSE /\ docs' = [docs EXCEPT
                              ![d].text_content =
                                  IF text > 0 THEN Min(text, MaxTextLen) ELSE Null,
                              ![d].page_count = jobs[j].pages,
                              ![d].status = "completed",
                              ![d].processing_completed_at = "set"]
                /\ tasks' = [tasks EXCEPT ![j].status = "success",
                                          ![j].progress = 100]
                /\ jobs' = [jobs EXCEPT ![j].pc = "return"]
        /\ resp' = NoResp
        /\ UNCHANGED <<nextJob, now, cursorVars, cacheVars, managerVars, rateVars>>

\* Line 480: the job returns and the message is acknowledged (acks_late).
ReturnResult(j) ==
    /\ jobs[j].st = "running"
    /\ jobs[j].pc = "return"
    /\ jobs' = [jobs EXCEPT ![j].st = "success", ![j].pc = "none"]
    /\ resp' = NoResp
    /\ UNCHANGED <<docs, tasks, nextJob, now, cursorVars, cacheVars, managerVars, rateVars>>

\* An exception in the pipeline body after the document was fetched
\* (get_storage() raising in extract_text_from_file or count_pdf_pages, which
\* call it outside their try blocks).
Throw(j) ==
    /\ jobs[j].st = "running"
    /\ jobs[j].pc \in {"extract", "pages"}
    /\ HandleException(j, TRUE)
    /\ resp' = NoResp
    /\ UNCHANGED <<nextJob, now, cursorVars, cacheVars, managerVars, rateVars>>

\* The worker process dies during an attempt, before the acknowledgement:
\* task_acks_late with task_reject_on_worker_lost puts the same message (the
\* same task id and retries) back on the queue. What the attempt committed
\* stays.
WorkerLost(j) ==
    /\ jobs[j].st = "running"
    /\ jobs[j].deliveries < MaxDeliver
    /\ jobs' = [jobs EXCEPT ![j].st = "queued", ![j].pc = "none"]
    /\ resp' = NoResp
    /\ UNCHANGED <<docs, tasks, nextJob, now, cursorVars, cacheVars, managerVars, rateVars>>

(***************************************************************************)
(* The periodic sweep and the clock.                                       *)
(***************************************************************************)

\* Mutant of Stuck: the threshold compared with <= instead of <.
Stuck_Inclusive(doc, t) ==
    /\ doc.row = "live"
    /\ doc.status = "processing"
    /\ doc.processing_started_at # Null
    /\ doc.processing_started_at <= t - StaleHours

\* The WHERE clause of _cleanup_failed_documents_async (a NULL
\* processing_started_at compares to NULL and is not selected).
Stuck(doc, t) ==
    /\ doc.row = "live"
    /\ doc.status = "processing"
    /\ doc.processing_started_at # Null
    /\ doc.processing_started_at < t - StaleHours

cleanup_failed_documents ==
    /\ docs' = [d \in DocIds |->
                  IF Stuck(docs[d], now)
                  THEN [docs[d] EXCEPT !.status = "failed",
                                       !.error_message = "Processing timeout"]
                  ELSE docs[d]]
    /\ resp' = NoResp
    /\ UNCHANGED <<tasks, jobs, nextJob, now, cursorVars, cacheVars, managerVars, rateVars>>

\* An hour passes.
Tick ==
    /\ now < MaxClock
    /\ now' = now + 1
    /\ resp' = NoResp
    /\ UNCHANGED <<docs, tasks, jobs, nextJob, cursorVars, cacheVars, managerVars, rateVars>>

(***************************************************************************)
(* The HTTP handlers that write documents.                                 *)
(***************************************************************************)

\* DocumentUploadResponse: the fields without a default.
UploadResponseRequired == {"document", "task_id"}

\* The keyword arguments upload_document passes to DocumentUploadResponse.
UploadResponseGiven == {"document", "message"}

\* The status of POST /documents/upload once the document is committed:
\* process_document.delay raising is not caught (500), and the response
\* model must validate (500 when a required field is missing).
UploadStatusCode(enqueued) ==
    IF ~enqueued THEN 500
    ELSE IF UploadResponseRequired \subseteq UploadResponseGiven THEN 201
    ELSE 500

\* The uploaded files: the suffix of the filename and the length of the
\* content.
Files ==
    [suffix : {".pdf", ".txt", ".exe", ""},
     size : {0, 1, MaxUploadSize, MaxUploadSize + 1}]

\* The checks of create_document before anything is stored.
ValidFile_NoSizeLimit(file) ==
    /\ file.suffix \in AllowedExtensions
    /\ file.size # 0

ValidFile(file) ==
    /\ file.suffix \in AllowedExtensions
    /\ ~(file.size > MaxUploadSize)
    /\ file.size # 0

\* upload_document -> DocumentService.create_document.  A file that fails
\* the checks is answered with bad_request (400) before anything is
\* written.  Otherwise the row d is committed in status pending, then the
\* job is enqueued (queueUp tells whether the broker accepts it).
upload_document(d, file) ==
    /\ docs[d].row = "none"
    /\ IF ~ValidFile(file)
       THEN /\ resp' = [NoResp EXCEPT !.op = "upload", !.code = 400]
            /\ UNCHANGED <<docs, jobs, nextJob>>
       ELSE /\ \E queueUp \in BOOLEAN :
                 /\ queueUp => nextJob < MaxJobs
                 /\ jobs' = IF queueUp THEN Enqueue(jobs, nextJob + 1, d)
                            ELSE jobs
                 /\ nextJob' = IF queueUp THEN nextJob + 1 ELSE nextJob
                 /\ resp' = [NoResp EXCEPT !.op = "upload", !.doc = d,
                                           !.code = UploadStatusCode(queueUp)]
            /\ docs' = [docs EXCEPT ![d] = [NoDocument EXCEPT !.row = "live"]]
    /\ UNCHANGED <<tasks, now, cursorVars, cacheVars, managerVars, rateVars>>

\* DocumentService.get_document: the row, of the caller's tenant and not
\* soft-deleted, or 404.
Gettable(d) == docs[d].row = "live" /\ ~docs[d].is_deleted

\* PATCH /documents/{id} -> DocumentService.update_document with a status in
\* the body (DocumentUpdate.status is any DocumentStatus).
update_document(d, status) ==
    /\ Gettable(d)
    /\ docs' = [docs EXCEPT ![d].status = status]
    /\ resp' = [NoResp EXCEPT !.op = "update", !.doc = d, !.code = 200]
    /\ UNCHANGED <<tasks, jobs, nextJob, now, cursorVars, cacheVars, managerVars, rateVars>>

\* DELETE /documents/{id} -> DocumentService.delete_document.
delete_document(d, hard_delete) ==
    /\ Gettable(d)
    /\ docs' = IF hard_delete
               THEN [docs EXCEPT ![d] = [NoDocument EXCEPT !.row = "gone"]]
               ELSE [docs EXCEPT ![d].is_deleted = TRUE]
    /\ resp' = [NoResp EXCEPT !.op = "delete", !.doc = d, !.code = 200]
    /\ UNCHANGED <<tasks, jobs, nextJob, now, cursorVars, cacheVars, managerVars, rateVars>>

\* The tenant of the user who uploads the documents of the pipeline.
DocumentTenant(d) == 1

Owners == {DocumentTenant(d) : d \in DocIds}

\* bulk_document_action: whether the SELECT at the start of the request
\* returns a row for the id to the caller of tenant t.
BulkSelects_AnyTenant(t, id) == id \in DocIds /\ docs[id].row = "live"

BulkSelects(t, id) ==
    /\ id \in DocIds
    /\ docs[id].row = "live"
    /\ DocumentTenant(id) = t

\* One pass of the loop of bulk_document_action (lines 154-196) over the
\* document id, on the accumulated session state a; found tells whether
\* the SELECT returned the id, queueUp whether process_document.delay
\* succeeds for this id.
BulkItem(a, action, id, found, queueUp) ==
    LET doc == a.docs[id]
        skip == [a EXCEPT !.skipped = @ + 1]
    IN  IF ~found THEN skip
        ELSE IF action = "delete"
        THEN [a EXCEPT !.docs[id].is_deleted = TRUE, !.succeeded = @ + 1]
        ELSE IF action = "archive"
        THEN [a EXCEPT !.docs[id].status = "archived", !.succeeded = @ + 1]
        ELSE IF action = "restore"
        THEN IF ~doc.is_deleted THEN skip
             ELSE [a EXCEPT !.docs[id].is_deleted = FALSE, !.succeeded = @ + 1]
        ELSE \* reprocess
             IF doc.status \notin {"failed", "completed"} THEN skip
             ELSE IF queueUp
             THEN [a EXCEPT !.docs[id].status = "pending",
                            !.docs[id].error_message = "null",
                            !.jobs = IF a.nextJob + 1 \in JobIds
                                     THEN Enqueue(a.jobs, a.nextJob + 1, id)
                                     ELSE a.jobs,
                            !.nextJob = @ + 1,
                            !.succeeded = @ + 1]
             ELSE [a EXCEPT !.docs[id].status = "pending",
                            !.docs[id].error_message = "null",
                            !.failed = @ + 1]

RECURSIVE BulkLoop(_, _, _, _, _, _)
BulkLoop(a, t, action, ids, down, i) ==
    IF i > Len(ids) THEN a
    ELSE BulkLoop(BulkItem(a, action, ids[i], BulkSelects(t, ids[i]),
                           i \notin down),
                  t, action, ids, down, i + 1)

BulkActions == {"delete", "archive", "restore", "reprocess"}

\* The document_ids a bulk request may carry: a non-empty list, ids may
\* repeat and may name no document.
BulkIdListsUpTo(max) ==
    UNION {[1..n -> DocIds \cup {NoDoc}] : n \in 1..max}

BulkIdLists == BulkIdListsUpTo(MaxBulk)

\* The sets of list positions at which the broker may refuse a job (only
\* reprocess enqueues).
BrokerDown(action, ids) ==
    IF action = "reprocess" THEN SUBSET (1..Len(ids)) ELSE {{}}

\* POST /documents/bulk -> bulk_document_action by a user of tenant t: the
\* loop, one commit, the response. down is the set of list positions at
\* which the broker refuses the job.  No list request is made in this
\* specification, so the namespace that is invalidated is empty.
bulk_document_action(t, action, ids, down) ==
    LET a0 == [docs |-> docs, jobs |-> jobs, nextJob |-> nextJob,
               succeeded |-> 0, failed |-> 0, skipped |-> 0]
        a == BulkLoop(a0, t, action, ids, down, 1)
    IN  /\ a.nextJob <= MaxJobs
        /\ docs' = a.docs
        /\ jobs' = a.jobs
        /\ nextJob' = a.nextJob
        /\ resp' = [NoResp EXCEPT !.op = "bulk", !.code = 200,
                                  !.total_requested = Len(ids),
                                  !.succeeded = a.succeeded,
                                  !.failed = a.failed,
                                  !.skipped = a.skipped]
        /\ UNCHANGED <<tasks, now, cursorVars, cacheVars, managerVars, rateVars>>

Next ==
    \/ \E j \in JobIds : StartAttempt(j)
    \/ \E j \in JobIds : FetchDocument(j)
    \/ \E j \in JobIds : ExtractText(j)
    \/ \E j \in JobIds : CountPages(j)
    \/ \E j \in JobIds : FinalUpdate(j)
    \/ \E j \in JobIds : ReturnResult(j)
    \/ \E j \in JobIds : Throw(j)
    \/ \E j \in JobIds : WorkerLost(j)
    \/ cleanup_failed_documents
    \/ Tick
    \/ \E d \in DocIds, file \in Files : upload_document(d, file)
    \/ \E d \in DocIds, s \in Statuses : update_document(d, s)
    \/ \E d \in DocIds, h \in BOOLEAN : delete_document(d, h)
    \/ \E t \in Owners, action \in BulkActions, ids \in BulkIdLists :
          \E down \in BrokerDown(action, ids) :
             bulk_document_action(t, action, ids, down)

Spec == Init /\ [][Next]_vars

(***************************************************************************)
(* The HTTP handlers alone, with no worker running: requests of every      *)
(* tenant, and bulk requests with longer id lists.                         *)
(***************************************************************************)
MaxBulkApi == 2

NextApi ==
    \/ \E d \in DocIds, file \in Files : upload_document(d, file)
    \/ \E d \in DocIds, s \in Statuses : update_document(d, s)
    \/ \E d \in DocIds, h \in BOOLEAN : delete_document(d, h)
    \/ \E t \in Tenants, action \in BulkActions,
          ids \in BulkIdListsUpTo(MaxBulkApi) :
          \E down \in BrokerDown(action, ids) :
             bulk_document_action(t, action, ids, down)

SpecApi == Init /\ [][NextApi]_vars

(***************************************************************************)
(* The pipeline under fair scheduling: uploads, the worker, the hourly     *)
(* sweep and the clock.  A worker that is up takes the next step of every  *)
(* job it can run, celery beat keeps running the sweep, and time passes;   *)
(* exceptions and worker crashes may happen but need not.                  *)
(***************************************************************************)
WorkerStep(j) ==
    \/ StartAttempt(j)
    \/ FetchDocument(j)
    \/ ExtractText(j)
    \/ CountPages(j)
    \/ FinalUpdate(j)
    \/ ReturnResult(j)

NextLive ==
    \/ \E j \in JobIds : WorkerStep(j)
    \/ \E j \in JobIds : Throw(j)
    \/ \E j \in JobIds : WorkerLost(j)
    \/ cleanup_failed_documents
    \/ Tick
    \/ \E d \in DocIds, file \in Files : upload_document(d, file)

Fairness ==
    /\ \A j \in JobIds : WF_vars(WorkerStep(j))
    /\ WF_vars(cleanup_failed_documents)
    /\ WF_vars(Tick)

SpecLive == Init /\ [][NextLive]_vars /\ Fairness

(***************************************************************************)
(* Cursor pagination (QueryBuilder.execute_cursor) over the table.         *)
(***************************************************************************)
Present == {r \in RowIds : table[r] # NoTs}

\* ORDER BY created_at DESC: the rows in an order the database may return
\* them in; rows with equal created_at come in either order.
Orders ==
    {o \in [1..Cardinality(Present) -> Present] :
        /\ \A i, k \in DOMAIN o : i # k => o[i] # o[k]
        /\ \A i, k \in DOMAIN o : i < k => table[o[i]] >= table[o[k]]}

Take(s, n) == SubSeq(s, 1, Min(n, Len(s)))

\* The comparison is strict and on created_at alone; the cursor's last_id
\* is not read.
CursorKeeps(r, last_value, direction) ==
    IF direction = "next"
    THEN table[r] < last_value
    ELSE table[r] > last_value

\* The exception that leaves execute_cursor, if any.  Only the ValueError of
\* decode_cursor is caught: a decoded value that is no dict has no .get
\* (AttributeError), an ordering comparison with None is refused when the
\* WHERE clause is built (ArgumentError), and a last_value that is no
\* timestamp is refused by the database (DataError).
CursorError(cursor) ==
    LET dec == decode_cursor(cursor) IN
    IF cursor.kind = "none" \/ dec.raised = "ValueError" THEN "none"
    ELSE IF dec.value.kind # "json_object" THEN "AttributeError"
    ELSE IF ~dec.value.has_last_value THEN "ArgumentError"
    ELSE IF TimestampOfStr(dec.value.last_value.text) = BadTs
         THEN "DataError"
    ELSE "none"

\* The WHERE clause the cursor adds; none for no cursor and for a cursor
\* that decode_cursor rejects.
CursorFilter(cursor, r) ==
    LET dec == decode_cursor(cursor) IN
    IF cursor.kind = "none" \/ dec.raised = "ValueError" THEN TRUE
    ELSE CursorKeeps(r, TimestampOfStr(dec.value.last_value.text),
                     dec.value.direction)

\* The attributes of a loaded row: created_at is a datetime, id is the str
\* the String(36) column holds.
RowCreatedAt(r) == PyValue("datetime", StrOfTimestamp(table[r]))

RowId(r) == PyValue("str", <<r>>)

\* The dict execute_cursor builds for the row r.
CursorData_RawCreatedAt(r, direction) ==
    [last_value |-> RowCreatedAt(r), last_id |-> RowId(r),
     direction |-> direction]

CursorData(r, direction) ==
    [last_value |-> str(RowCreatedAt(r)), last_id |-> RowId(r),
     direction |-> direction]

CursorOf(r, direction) == encode_cursor(CursorData(r, direction))

\* Mutant of execute_cursor: only limit rows are fetched and a full page is
\* taken to have a successor.
execute_cursor_NoExtraRow(cursor, limit, o) ==
    LET Keep(r) == CursorFilter(cursor, r)
        rows == Take(SelectSeq(o, Keep), limit)
        has_next == Len(rows) >= limit
        items == rows
    IN  IF CursorError(cursor) # "none"
        THEN [NoPage EXCEPT !.cursor = cursor, !.limit = limit,
                            !.raised = TRUE]
        ELSE [cursor |-> cursor, limit |-> limit, raised |-> FALSE,
              items |-> items,
              next_cursor |-> IF has_next /\ items # <<>>
                              THEN CursorOf(items[Len(items)], "next")
                              ELSE NoCursor,
              prev_cursor |-> IF cursor.kind # "none" /\ items # <<>>
                              THEN CursorOf(items[1], "prev")
                              ELSE NoCursor]

\* execute_cursor(cursor_field = created_at, cursor, limit), the database
\* returning the rows in the order o.
execute_cursor(cursor, limit, o) ==
    LET Keep(r) == CursorFilter(cursor, r)
        rows == Take(SelectSeq(o, Keep), limit + 1)
        has_next == Len(rows) > limit
        items == IF has_next THEN Take(rows, limit) ELSE rows
    IN  IF CursorError(cursor) # "none"
        THEN [NoPage EXCEPT !.cursor = cursor, !.limit = limit,
                            !.raised = TRUE]
        ELSE [cursor |-> cursor, limit |-> limit, raised |-> FALSE,
              items |-> items,
              next_cursor |-> IF has_next /\ items # <<>>
                              THEN CursorOf(items[Len(items)], "next")
                              ELSE NoCursor,
              prev_cursor |-> IF cursor.kind # "none" /\ items # <<>>
                              THEN CursorOf(items[1], "prev")
                              ELSE NoCursor]

\* A document row is committed; created_at is the database's now().
InsertDocument(r) ==
    /\ table[r] = NoTs
    /\ table' = [table EXCEPT ![r] = clk]
    /\ UNCHANGED <<clk, iter, page, pipelineVars, cacheVars, managerVars, rateVars>>

\* The database clock moves on.
ClockTick ==
    /\ clk < MaxTs
    /\ clk' = clk + 1
    /\ UNCHANGED <<table, iter, page, pipelineVars, cacheVars, managerVars, rateVars>>

\* A client starts to iterate: the request with no cursor.
FirstPage(limit) ==
    /\ iter.state = "idle"
    /\ \E o \in Orders : page' = execute_cursor(NoCursor, limit, o)
    /\ iter' = [state |-> IF page'.next_cursor = NoCursor
                          THEN "done" ELSE "paging",
                limit |-> limit, cursor |-> page'.next_cursor,
                seen |-> page'.items, snap |-> Present]
    /\ UNCHANGED <<table, clk, pipelineVars, cacheVars, managerVars, rateVars>>

\* The client follows next_cursor until the response has none.
NextPage ==
    /\ iter.state = "paging"
    /\ \E o \in Orders : page' = execute_cursor(iter.cursor, iter.limit, o)
    /\ iter' = [iter EXCEPT
                   !.state = IF page'.raised THEN "error"
                             ELSE IF page'.next_cursor = NoCursor
                             THEN "done" ELSE "paging",
                   !.cursor = page'.next_cursor,
                   !.seen = iter.seen \o page'.items]
    /\ UNCHANGED <<table, clk, pipelineVars, cacheVars, managerVars, rateVars>>

\* The client of the iteration goes back: it requests the prev_cursor of the
\* page it is on (the response to its last request, which carried a token
\* with a last_id), with the same limit.
PrevPage ==
    /\ iter.state \in {"paging", "done"}
    /\ page.cursor.last_id # <<>>
    /\ ~page.raised
    /\ page.prev_cursor # NoCursor
    /\ \E o \in Orders : page' = execute_cursor(page.prev_cursor, iter.limit, o)
    /\ iter' = [iter EXCEPT !.state = "back"]
    /\ UNCHANGED <<table, clk, pipelineVars, cacheVars, managerVars, rateVars>>

\* The cursor strings a client may send that no response handed out.
ForeignCursors ==
    {[NoCursor EXCEPT !.kind = k] : k \in {"not_base64", "not_json",
                                           "json_array", "json_object"}}
    \cup {[NoCursor EXCEPT !.kind = "json_object", !.has_last_value = TRUE,
                           !.last_value = v, !.direction = d] :
            v \in {<<10, 10>>} \cup {StrOfTimestamp(t) : t \in 1..MaxTs},
            d \in {"next", "prev", "sideways"}}

\* A request with a cursor string of the client's own making.
Request(cursor, limit) ==
    /\ \E o \in Orders : page' = execute_cursor(cursor, limit, o)
    /\ page' # page
    /\ UNCHANGED <<table, clk, iter, pipelineVars, cacheVars, managerVars, rateVars>>

NextCursor ==
    \/ \E r \in RowIds : InsertDocument(r)
    \/ ClockTick
    \/ \E limit \in Limits : FirstPage(limit)
    \/ NextPage
    \/ PrevPage
    \/ \E cursor \in ForeignCursors, limit \in Limits :
           Request(cursor, limit)

SpecCursor == Init /\ [][NextCursor]_vars

(***************************************************************************)
(* The handlers of several tenants over the documents table and the        *)
(* documents_v2 cache.  A handler that awaits more than once is one action *)
(* per await, so that requests interleave as they do on the event loop.    *)
(* A cache operation may find Redis unreachable (up = FALSE); CacheManager *)
(* then logs and returns the miss value.                                   *)
(***************************************************************************)
Max(a, b) == IF a > b THEN a ELSE b

\* The rows the v2 listing query selects for a tenant, each with the data
\* it shows: tenant_id == caller's, is_deleted == False.
Listing(t) ==
    {[id |-> d, ver |-> documents[d].ver] :
        d \in {x \in Ids : documents[x].tenant = t
                           /\ ~documents[x].is_deleted}}

ItemIds(items) == {i.id : i \in items}

Idle(c) == calls[c].pc = "idle"

\* list_documents_v2, cache hit: the cached page is the response.
ListHit(c, t) ==
    /\ Idle(c)
    /\ cache[CacheKey(t)].present
    /\ out' = [op |-> "list_v2", tenant |-> t, code |-> 200, hit |-> TRUE,
               ids |-> ItemIds(cache[CacheKey(t)].items)]
    /\ UNCHANGED <<documents, cache, calls, commits, invalidated>>
    /\ UNCHANGED <<pipelineVars, cursorVars, managerVars, rateVars>>

\* list_documents_v2, cache miss: no value under the key, or the get failed.
ListMiss(c, t) ==
    /\ Idle(c)
    /\ \E up \in BOOLEAN : ~(up /\ cache[CacheKey(t)].present)
    /\ calls' = [calls EXCEPT ![c] = [NoCall EXCEPT !.pc = "query",
                                                    !.tenant = t]]
    /\ out' = NoOut
    /\ UNCHANGED <<documents, cache, commits, invalidated>>
    /\ UNCHANGED <<pipelineVars, cursorVars, managerVars, rateVars>>

\* list_documents_v2: the query runs.
ListQuery(c) ==
    /\ calls[c].pc = "query"
    /\ calls' = [calls EXCEPT ![c].pc = "set",
                              ![c].items = Listing(calls[c].tenant)]
    /\ out' = NoOut
    /\ UNCHANGED <<documents, cache, commits, invalidated>>
    /\ UNCHANGED <<pipelineVars, cursorVars, managerVars, rateVars>>

\* list_documents_v2: the response is cached and returned.
ListSet(c) ==
    /\ calls[c].pc = "set"
    /\ \E up \in BOOLEAN :
         cache' = IF up
                  THEN [cache EXCEPT ![CacheKey(calls[c].tenant)] =
                           [present |-> TRUE, items |-> calls[c].items,
                            epoch |-> commits]]
                  ELSE cache
    /\ out' = [op |-> "list_v2", tenant |-> calls[c].tenant, code |-> 200,
               hit |-> FALSE, ids |-> ItemIds(calls[c].items)]
    /\ calls' = [calls EXCEPT ![c] = NoCall]
    /\ UNCHANGED <<documents, commits, invalidated>>
    /\ UNCHANGED <<pipelineVars, cursorVars, managerVars, rateVars>>

\* The TTL of 60 seconds runs out.
Expire(k) ==
    /\ cache[k].present
    /\ cache' = [cache EXCEPT ![k] = NoEntry]
    /\ out' = NoOut
    /\ UNCHANGED <<documents, calls, commits, invalidated>>
    /\ UNCHANGED <<pipelineVars, cursorVars, managerVars, rateVars>>

\* The bulk requests: the four actions of bulk_document_action that write
\* is_deleted or the status ("reprocess" writes the status as "archive"
\* does), and bulk_update_documents ("update").
BulkKinds == {"delete", "archive", "restore", "update"}

BulkIdSets == SUBSET Ids \ {{}}

\* The rows the bulk SELECT finds: the caller's tenant's among the ids, and
\* for bulk_update_documents only those not deleted.
BulkFound(t, kind, ids) ==
    {d \in ids : /\ documents[d].tenant = t
                 /\ kind = "update" => ~documents[d].is_deleted}

\* What the request writes to a row it found.
BulkWrite(kind, row) ==
    CASE kind = "delete" -> [row EXCEPT !.is_deleted = TRUE]
      [] kind = "restore" -> [row EXCEPT !.is_deleted = FALSE]
      [] OTHER -> [row EXCEPT !.ver = row.ver + 1]

\* bulk_document_action / bulk_update_documents up to db.commit().
BulkCommit(c, t, kind, ids) ==
    LET found == BulkFound(t, kind, ids) IN
    /\ Idle(c)
    /\ commits < MaxCommits
    /\ \A d \in found :
         kind \in {"archive", "update"} => documents[d].ver < MaxVer
    /\ documents' = [d \in Ids |-> IF d \in found
                                   THEN BulkWrite(kind, documents[d])
                                   ELSE documents[d]]
    /\ commits' = commits + 1
    /\ calls' = [calls EXCEPT ![c] = [NoCall EXCEPT !.pc = "keys",
                                                    !.commit = commits + 1]]
    /\ out' = NoOut
    /\ UNCHANGED <<cache, invalidated>>
    /\ UNCHANGED <<pipelineVars, cursorVars, managerVars, rateVars>>

\* invalidate_namespace("documents_v2"): KEYS docintel:documents_v2:*.  With
\* no key, or Redis unreachable, it returns 0 and the handler returns.
InvalidateKeys(c) ==
    LET keys == {k \in CacheKeys : cache[k].present} IN
    /\ calls[c].pc = "keys"
    /\ \E up \in BOOLEAN :
         IF up /\ keys # {}
         THEN /\ calls' = [calls EXCEPT ![c].pc = "delete", ![c].keys = keys]
              /\ out' = NoOut
              /\ UNCHANGED invalidated
         ELSE /\ calls' = [calls EXCEPT ![c] = NoCall]
              /\ out' = BulkResponse
              /\ invalidated' = IF up THEN Max(invalidated, calls[c].commit)
                                ELSE invalidated
    /\ UNCHANGED <<documents, cache, commits>>
    /\ UNCHANGED <<pipelineVars, cursorVars, managerVars, rateVars>>

\* client.delete(*keys).
DeleteKeys_None(keys) == cache

DeleteKeys(keys) ==
    [k \in CacheKeys |-> IF k \in keys THEN NoEntry ELSE cache[k]]

\* invalidate_namespace: DEL of the keys found, then the handler returns.
InvalidateDelete(c) ==
    /\ calls[c].pc = "delete"
    /\ \E up \in BOOLEAN :
         /\ cache' = IF up THEN DeleteKeys(calls[c].keys) ELSE cache
         /\ invalidated' = IF up THEN Max(invalidated, calls[c].commit)
                           ELSE invalidated
    /\ calls' = [calls EXCEPT ![c] = NoCall]
    /\ out' = BulkResponse
    /\ UNCHANGED <<documents, commits>>
    /\ UNCHANGED <<pipelineVars, cursorVars, managerVars, rateVars>>

\* create_document: the upload of tenant t commits a new row.  The ids are
\* fresh uuids; the model hands them out in order.
CreateRow(t, d) ==
    /\ documents[d].tenant = NoTenant
    /\ \A e \in Ids : e < d => documents[e].tenant # NoTenant
    /\ documents' = [documents EXCEPT ![d] = [NoRow EXCEPT !.tenant = t]]
    /\ out' = NoOut
    /\ UNCHANGED <<cache, calls, commits, invalidated>>
    /\ UNCHANGED <<pipelineVars, cursorVars, managerVars, rateVars>>

\* DocumentService.get_document: the row by id, of the caller's tenant and
\* not deleted, else 404.
Found(t, d) == documents[d].tenant = t /\ ~documents[d].is_deleted

GetRow(t, d) ==
    /\ out' = IF Found(t, d)
              THEN [op |-> "get", tenant |-> t, code |-> 200, hit |-> FALSE,
                    ids |-> {d}]
              ELSE [op |-> "get", tenant |-> t, code |-> 404, hit |-> FALSE,
                    ids |-> {}]
    /\ UNCHANGED <<documents, cache, calls, commits, invalidated>>
    /\ UNCHANGED <<pipelineVars, cursorVars, managerVars, rateVars>>

\* DocumentService.update_document (v1 PATCH): get_document, setattr,
\* commit.  The cache is not touched.
UpdateRow(t, d) ==
    /\ Found(t, d)
    /\ documents[d].ver < MaxVer
    /\ documents' = [documents EXCEPT ![d].ver = @ + 1]
    /\ out' = NoOut
    /\ UNCHANGED <<cache, calls, commits, invalidated>>
    /\ UNCHANGED <<pipelineVars, cursorVars, managerVars, rateVars>>

\* DocumentService.delete_document (v1 DELETE, soft): get_document,
\* is_deleted = True, commit.  The cache is not touched.
SoftDeleteRow(t, d) ==
    /\ Found(t, d)
    /\ documents' = [documents EXCEPT ![d].is_deleted = TRUE]
    /\ out' = NoOut
    /\ UNCHANGED <<cache, calls, commits, invalidated>>
    /\ UNCHANGED <<pipelineVars, cursorVars, managerVars, rateVars>>

\* A commit of the worker (process_document, the sweep) to the row it
\* fetched by id.  The cache is not touched.
WorkerWrite(d) ==
    /\ documents[d].tenant # NoTenant
    /\ documents[d].ver < MaxVer
    /\ documents' = [documents EXCEPT ![d].ver = @ + 1]
    /\ out' = NoOut
    /\ UNCHANGED <<cache, calls, commits, invalidated>>
    /\ UNCHANGED <<pipelineVars, cursorVars, managerVars, rateVars>>

\* DocumentService.list_documents (v1) with the default filter
\* is_deleted = False; it is not cached.
ListV1(t) ==
    /\ out' = [op |-> "list_v1", tenant |-> t, code |-> 200, hit |-> FALSE,
               ids |-> ItemIds(Listing(t))]
    /\ UNCHANGED <<documents, cache, calls, commits, invalidated>>
    /\ UNCHANGED <<pipelineVars, cursorVars, managerVars, rateVars>>

NextCache ==
    \/ \E c \in Listers, t \in Tenants : ListHit(c, t)
    \/ \E c \in Listers, t \in Tenants : ListMiss(c, t)
    \/ \E c \in Listers : ListQuery(c)
    \/ \E c \in Listers : ListSet(c)
    \/ \E k \in CacheKeys : Expire(k)
    \/ \E c \in Writers, t \in Tenants, kind \in BulkKinds,
          ids \in BulkIdSets : BulkCommit(c, t, kind, ids)
    \/ \E c \in Writers : InvalidateKeys(c)
    \/ \E c \in Writers : InvalidateDelete(c)
    \/ \E t \in Tenants, d \in Ids : CreateRow(t, d)
    \/ \E t \in Tenants, d \in Ids : GetRow(t, d)
    \/ \E t \in Tenants, d \in Ids : UpdateRow(t, d)
    \/ \E t \in Tenants, d \in Ids : SoftDeleteRow(t, d)
    \/ \E d \in Ids : WorkerWrite(d)
    \/ \E t \in Tenants : ListV1(t)

SpecCache == Init /\ [][NextCache]_vars

(***************************************************************************)
(* The cache manager (app/core/cache.py): one action per operation.  Every *)
(* operation reads self.client inside its try, so a client that was never  *)
(* initialised raises RuntimeError there and an unreachable backend raises *)
(* ConnectionError there.                                                  *)
(***************************************************************************)
CacheOperations ==
    {"get", "set", "delete", "invalidate_namespace", "exists", "increment",
     "get_ttl"}

\* What the access to the backend raises when it is not available.
ClientError == IF client = "none" THEN RuntimeError ELSE ConnectionError

Return(op, v) == [op |-> op, client |-> client, raised |-> FALSE, value |-> v]

Raise(op, e) == [op |-> op, client |-> client, raised |-> TRUE, value |-> e]

\* CacheManager.init: from_url sets _client, then ping raises if the
\* backend cannot be reached.
init ==
    /\ client = "none"
    /\ \E up \in BOOLEAN :
         /\ client' = IF up THEN "up" ELSE "down"
         /\ ret' = IF up THEN Return("init", None)
                         ELSE Raise("init", ConnectionError)
    /\ UNCHANGED <<redis, pipelineVars, cursorVars, cacheVars, rateVars>>

\* The backend becomes unreachable, or reachable again.
BackendDown ==
    /\ client = "up"
    /\ client' = "down"
    /\ UNCHANGED <<redis, ret, pipelineVars, cursorVars, cacheVars, rateVars>>

BackendUp ==
    /\ client = "down"
    /\ client' = "up"
    /\ UNCHANGED <<redis, ret, pipelineVars, cursorVars, cacheVars, rateVars>>

\* The backend drops a key whose TTL ran out.
ExpireKey(k) ==
    /\ redis[k].present
    /\ redis[k].ttl # -1
    /\ redis' = [redis EXCEPT ![k] = NoValue]
    /\ UNCHANGED <<client, ret, pipelineVars, cursorVars, cacheVars, rateVars>>

get(namespace, key) ==
    LET cache_key == build_key(namespace, key) IN
    /\ ret' = IF client # "up" THEN Return("get", None)
              ELSE IF ~redis[cache_key].present THEN Return("get", None)
              ELSE Return("get", JsonLoads(redis[cache_key].text))
    /\ UNCHANGED <<client, redis, pipelineVars, cursorVars, cacheVars, rateVars>>

set(namespace, key, value, ttl) ==
    LET cache_key == build_key(namespace, key)
        ex == IF ttl # 0 THEN ttl ELSE RedisCacheTtl
    IN
    /\ IF client # "up"
       THEN /\ ret' = Return("set", PyBool(FALSE))
            /\ UNCHANGED redis
       ELSE /\ redis' = [redis EXCEPT ![cache_key] =
                           [present |-> TRUE, text |-> JsonDumps(value),
                            ttl |-> ex]]
            /\ ret' = Return("set", PyBool(TRUE))
    /\ UNCHANGED <<client, pipelineVars, cursorVars, cacheVars, rateVars>>

delete(namespace, key) ==
    LET cache_key == build_key(namespace, key)
        result == IF redis[cache_key].present THEN 1 ELSE 0
    IN
    /\ IF client # "up"
       THEN /\ ret' = Return("delete", PyBool(FALSE))
            /\ UNCHANGED redis
       ELSE /\ redis' = [redis EXCEPT ![cache_key] = NoValue]
            /\ ret' = Return("delete", PyBool(result > 0))
    /\ UNCHANGED <<client, pipelineVars, cursorVars, cacheVars, rateVars>>

invalidate_namespace(namespace) ==
    LET keys == {k \in RedisKeys :
                   /\ redis[k].present
                   /\ \E key \in KeyNames : k = build_key(namespace, key)}
    IN
    /\ IF client # "up"
       THEN /\ ret' = Return("invalidate_namespace", PyInt(0))
            /\ UNCHANGED redis
       ELSE /\ redis' = [k \in RedisKeys |->
                           IF k \in keys THEN NoValue ELSE redis[k]]
            /\ ret' = Return("invalidate_namespace", PyInt(Cardinality(keys)))
    /\ UNCHANGED <<client, pipelineVars, cursorVars, cacheVars, rateVars>>

exists(namespace, key) ==
    LET cache_key == build_key(namespace, key) IN
    /\ ret' = IF client # "up" THEN Return("exists", PyBool(FALSE))
              ELSE Return("exists", PyBool(redis[cache_key].present))
    /\ UNCHANGED <<client, redis, pipelineVars, cursorVars, cacheVars, rateVars>>

\* INCR, then EXPIRE if a ttl was given; an error is logged and raised
\* again.
IncrCount(cache_key) ==
    IF redis[cache_key].present THEN StrInt(redis[cache_key].text) + 1 ELSE 1

Incremented(cache_key, ttl) ==
    [present |-> TRUE, text |-> IntStr(IncrCount(cache_key)),
     ttl |-> IF ttl # 0 THEN ttl
             ELSE IF redis[cache_key].present THEN redis[cache_key].ttl
             ELSE -1]

increment(namespace, key, ttl) ==
    LET cache_key == build_key(namespace, key)
        count == IncrCount(cache_key)
    IN
    /\ IF client # "up"
       THEN /\ ret' = Raise("increment", ClientError)
            /\ UNCHANGED redis
       ELSE /\ count <= MaxCount
            /\ redis' = [redis EXCEPT ![cache_key] = Incremented(cache_key, ttl)]
            /\ ret' = Return("increment", PyInt(count))
    /\ UNCHANGED <<client, pipelineVars, cursorVars, cacheVars, rateVars>>

get_ttl(namespace, key) ==
    LET cache_key == build_key(namespace, key) IN
    /\ ret' = IF client # "up" THEN Return("get_ttl", PyInt(-1))
              ELSE Return("get_ttl", PyInt(redis[cache_key].ttl))
    /\ UNCHANGED <<client, redis, pipelineVars, cursorVars, cacheVars, rateVars>>

NextCacheManager ==
    \/ init
    \/ BackendDown
    \/ BackendUp
    \/ \E k \in RedisKeys : ExpireKey(k)
    \/ \E namespace \in Namespaces, key \in KeyNames : get(namespace, key)
    \/ \E namespace \in Namespaces, key \in KeyNames, value \in CacheValues,
          ttl \in TtlArgs : set(namespace, key, value, ttl)
    \/ \E namespace \in Namespaces, key \in KeyNames : delete(namespace, key)
    \/ \E namespace \in Namespaces : invalidate_namespace(namespace)
    \/ \E namespace \in Namespaces, key \in KeyNames : exists(namespace, key)
    \/ \E namespace \in Namespaces, key \in KeyNames, ttl \in TtlArgs :
         increment(namespace, key, ttl)
    \/ \E namespace \in Namespaces, key \in KeyNames : get_ttl(namespace, key)

SpecCacheManager == Init /\ [][NextCacheManager]_vars

(***************************************************************************)
(* The rate limiter (app/core/rate_limit.py) over the counters of the      *)
(* backend, with the seconds passing.                                      *)
(***************************************************************************)
\* Mutant of Exceeded: the call that reaches the limit is already rejected.
Exceeded_AtLimit(current_count, config) == current_count >= config.requests

\* if current_count > config.requests
Exceeded(current_count, config) == current_count > config.requests

\* The dict check_rate_limit returns when the backend raised.
FailOpenInfo(config) ==
    [NoRateLimitInfo EXCEPT !.status = 200, !.limit = config.requests,
                            !.remaining = config.requests]

\* check_rate_limit after both cache calls returned: the HTTPException 429
\* or the rate_limit_info dict.
RateLimitInfo(current_count, ttl, config) ==
    IF Exceeded(current_count, config)
    THEN [NoRateLimitInfo EXCEPT !.status = 429, !.limit = config.requests,
                                 !.retry_after = ttl, !.reset = ttl]
    ELSE [NoRateLimitInfo EXCEPT
             !.status = 200, !.limit = config.requests,
             !.remaining = Max(0, config.requests - current_count),
             !.reset = ttl, !.current = current_count]

\* check_rate_limit(identifier, limit_type).  cache_manager.increment with
\* ttl = config.window, then cache_manager.get_ttl; ttlUp tells whether the
\* backend is still reachable for the second call.  An exception of the
\* increment is caught and the call is let through.
check_rate_limit(identifier, limit_type) ==
    LET config == RATE_LIMITS[limit_type]
        key == RateLimitKey(identifier, limit_type)
        cache_key == build_key(config.key_prefix, key)
        current_count == IncrCount(cache_key)
        counting == redis[cache_key].present
    IN
    /\ IF client # "up"
       THEN /\ ret' = Raise("increment", ClientError)
            /\ rl' = [rl EXCEPT
                        !.out = FailOpenInfo(config),
                        !.admitted = IF counting THEN @ + 1 ELSE @,
                        !.failed_open = IF counting THEN @ + 1 ELSE @]
            /\ rl'.admitted <= RateMaxCount
            /\ UNCHANGED <<client, redis>>
       ELSE /\ current_count <= RateMaxCount
            /\ redis' = [redis EXCEPT ![cache_key] =
                            Incremented(cache_key, config.window)]
            /\ \E ttlUp \in BOOLEAN :
                 LET ttl == IF ttlUp THEN redis'[cache_key].ttl ELSE -1
                     info == RateLimitInfo(current_count, ttl, config)
                     let_in == IF info.status = 200 THEN 1 ELSE 0
                 IN  /\ client' = IF ttlUp THEN "up" ELSE "down"
                     /\ ret' = [op |-> "get_ttl", client |-> client',
                                raised |-> FALSE, value |-> PyInt(ttl)]
                     /\ rl' = IF counting
                              THEN [rl EXCEPT !.out = info,
                                              !.admitted = @ + let_in]
                              ELSE [out |-> info, age |-> 0,
                                    admitted |-> let_in, failed_open |-> 0]
    /\ UNCHANGED <<pipelineVars, cursorVars, cacheVars>>

\* TickSeconds seconds pass: the backend counts the TTLs down and drops the
\* keys whose TTL ran out.
Elapsed(v) ==
    IF v.present /\ v.ttl > 0
    THEN IF v.ttl <= TickSeconds THEN NoValue
         ELSE [v EXCEPT !.ttl = @ - TickSeconds]
    ELSE v

Elapse ==
    /\ \E k \in RedisKeys : redis[k].present
    /\ rl.age < MaxAge
    /\ redis' = [k \in RedisKeys |-> Elapsed(redis[k])]
    /\ rl' = IF \E k \in RedisKeys : redis'[k].present
             THEN [rl EXCEPT !.age = @ + TickSeconds]
             ELSE [rl EXCEPT !.age = 0, !.admitted = 0, !.failed_open = 0]
    /\ UNCHANGED <<client, ret, pipelineVars, cursorVars, cacheVars>>

NextRateLimit ==
    \/ init
    \/ BackendDown
    \/ BackendUp
    \/ Elapse
    \/ \E identifier \in Identifiers, limit_type \in LimitTypes :
         check_rate_limit(identifier, limit_type)

SpecRateLimit == Init /\ [][NextRateLimit]_vars

(***************************************************************************)
(* The claims about the pipeline, checked under Spec.                      *)
(***************************************************************************)

\* The edges of the state machine of spec section 4.1.
StatusEdges ==
    {<<"pending", "processing">>, <<"processing", "completed">>,
     <<"processing", "failed">>, <<"failed", "pending">>,
     <<"completed", "archived">>, <<"failed", "archived">>}

\* C1: every change of a Document's status, by whatever operation, follows
\* one of the edges pending->processing, processing->completed,
\* processing->failed, failed->pending, completed->archived,
\* failed->archived (so nothing leaves archived).
C1_StatusFollowsEdges ==
    [][\A d \in DocIds :
          (/\ docs[d].row = "live"
           /\ docs'[d].row = "live"
           /\ docs'[d].status # docs[d].status)
          => <<docs[d].status, docs'[d].status>> \in StatusEdges]_vars

\* C2: a job whose every attempt threw (each delivery the first one or a
\* scheduled retry, none lost) and that has no further attempt scheduled has
\* its Task at retry_count = max_retries and was attempted max_retries + 1
\* times.
C2_RetryBound ==
    \A j \in JobIds :
       (/\ jobs[j].st = "failed"
        /\ jobs[j].retries >= 1
        /\ jobs[j].deliveries = jobs[j].retries + 1)
       => /\ tasks[j].retry_count = TaskMaxRetries
          /\ jobs[j].deliveries = TaskMaxRetries + 1

\* C3: the attempt that finds no Document row for its id ends without a
\* retry: no retry is scheduled and the Task status does not become retry.
C3_NotFoundNeverRetried ==
    [][\A j \in JobIds :
          (/\ jobs[j].st = "running"
           /\ jobs[j].pc = "fetch"
           /\ docs[jobs[j].doc].row # "live"
           /\ jobs'[j] # jobs[j])
          => /\ jobs'[j].st # "retry"
             /\ tasks'[j].status # "retry"]_vars

\* C4: one run of the sweep sets failed, with the timeout message, every
\* document in processing whose processing_started_at is more than one hour
\* before now, and leaves every other document as it was.
C4_SweepFailsExactlyTheStale ==
    [][cleanup_failed_documents =>
          \A d \in DocIds :
             IF /\ docs[d].row = "live"
                /\ docs[d].status = "processing"
                /\ docs[d].processing_started_at # Null
                /\ now - docs[d].processing_started_at > StaleHours
             THEN /\ docs'[d].status = "failed"
                  /\ docs'[d].error_message = "Processing timeout"
             ELSE docs'[d] = docs[d]]_vars

\* C4 witness: the sweep has failed a stale document.
C4_Witness ==
    \E d \in DocIds :
       /\ docs[d].status = "failed"
       /\ docs[d].error_message = "Processing timeout"

C6_RetryUpdatesTheRecord ==
    \A j \in JobIds :
       (jobs[j].retries >= 1 /\ jobs[j].st # "retry")
       => /\ tasks[j].rows = 1
          /\ tasks[j].status # "retry"

\* C7: an upload whose enqueue failed (no job exists for the new document)
\* still answers 201 and leaves the committed Document pending.
C7_UploadSurvivesEnqueueFailure ==
    (/\ resp.op = "upload"
     /\ \A j \in JobIds : jobs[j].doc # resp.doc)
    => /\ resp.code = 201
       /\ docs[resp.doc].row = "live"
       /\ docs[resp.doc].status = "pending"

(***************************************************************************)
(* Claims about the cursor pagination, for SpecCursor.                     *)
(***************************************************************************)
Count(s, r) == Cardinality({i \in DOMAIN s : s[i] = r})

\* C8: an iteration from no cursor along next_cursor to the response that
\* has none, over a table nothing was written to meanwhile, has returned
\* every row of the table exactly once, whatever the created_at values and
\* the limit.
C8_IterationCoversSnapshot ==
    (iter.state = "done" /\ iter.snap = Present)
        => /\ Len(iter.seen) = Cardinality(iter.snap)
           /\ \A r \in iter.snap : Count(iter.seen, r) = 1

\* C9: when rows were inserted between the first request and the one that
\* ends the iteration, every row that was there at the first request has
\* still been returned exactly once.
C9_InsertsKeepExistingRows ==
    [][(/\ iter.state = "paging"
        /\ iter'.state = "done"
        /\ iter.snap # Present)
          => \A r \in iter.snap : Count(iter'.seen, r) = 1]_vars

\* A token execute_cursor could have handed out.
ValidToken(cursor) ==
    /\ cursor.kind = "json_object"
    /\ cursor.has_last_value
    /\ TimestampOfStr(cursor.last_value) # BadTs
    /\ cursor.direction \in {"next", "prev"}

\* C10: a request whose cursor string is not a valid token raises nothing
\* and returns the items that a request with no cursor returns.
C10_InvalidCursorIsFirstPage ==
    [][(/\ page' # page
        /\ page'.cursor.kind # "none"
        /\ ~ValidToken(page'.cursor))
          => /\ ~page'.raised
             /\ \E o \in Orders :
                  page'.items = execute_cursor(NoCursor, page'.limit, o).items]_vars

\* The keys of a decoded cursor object.
CursorKeys(value) ==
    [last_value |-> value.last_value, last_id |-> value.last_id,
     direction |-> value.direction]

\* The row and the token of the cursor that a response carries for a
\* direction.
PageCursor(direction) ==
    IF direction = "next" THEN page.next_cursor ELSE page.prev_cursor

PageCursorRow(direction) ==
    IF direction = "next" THEN page.items[Len(page.items)] ELSE page.items[1]

\* C11: for the cursor object c = {last_value, last_id, direction} behind
\* every next_cursor and prev_cursor that execute_cursor hands out, the
\* token is encode_cursor(c) and decode_cursor of it returns, without
\* raising, an object whose three keys equal those of c, types included.
C11_CursorRoundTrip ==
    \A direction \in {"next", "prev"} :
        PageCursor(direction) # NoCursor =>
            LET c == CursorData(PageCursorRow(direction), direction)
                dec == decode_cursor(encode_cursor(c))
            IN  /\ PageCursor(direction) = encode_cursor(c)
                /\ dec.raised = "none"
                /\ dec.value.kind = "json_object"
                /\ dec.value.has_last_value
                /\ CursorKeys(dec.value) = c

\* C11 witness: a response that carries both a next and a prev cursor.
C11_Witness ==
    /\ page.next_cursor # NoCursor
    /\ page.prev_cursor # NoCursor

(***************************************************************************)
(* Claims about the cache and the tenants, for SpecCache.                  *)
(***************************************************************************)
\* C12, as stated: a list request answered from the cache never returns an
\* entry that was written before a bulk request's commit (the entry's epoch
\* is the number of bulk commits at the time it was set).
C12_NoEntryFromBeforeACommit ==
    [][\A c \in Listers, t \in Tenants :
         ListHit(c, t) => cache[CacheKey(t)].epoch = commits]_vars

\* C12, amended: once the invalidate_namespace call of a bulk request has
\* reached Redis and returned, no list request is answered from an entry
\* that was written before that request's commit.
C12_NoEntryFromBeforeAnInvalidatedCommit ==
    [][\A c \in Listers, t \in Tenants :
         ListHit(c, t) => cache[CacheKey(t)].epoch >= invalidated]_vars

\* C12 witness: a list request is answered from the cache after a bulk
\* request's invalidation went through.
C12_Witness ==
    /\ invalidated > 0
    /\ out.op = "list_v2"
    /\ out.hit
    /\ out.ids # {}

\* C13: a list response served from the cache shows the rows, and the data
\* of each row, that the listing query would return at that moment.
C13_CachedListIsCurrent ==
    [][\A c \in Listers, t \in Tenants :
         ListHit(c, t) => cache[CacheKey(t)].items = Listing(t)]_vars

\* C17: every response to a caller (list v2 from the database or the cache,
\* list v1, get by id) holds only documents of the caller's tenant, and a
\* bulk request changes only rows of the caller's tenant.
C17_TenantIsolation ==
    [][/\ \A d \in out'.ids : documents[d].tenant = out'.tenant
       /\ \A c \in Writers, t \in Tenants, kind \in BulkKinds,
             ids \in BulkIdSets :
            BulkCommit(c, t, kind, ids) =>
                \A d \in Ids : documents'[d] # documents[d]
                                  => documents[d].tenant = t]_vars

\* C17 witness: a tenant is answered from the cache with its documents
\* while another tenant has documents too.
C17_Witness ==
    /\ out.op = "list_v2"
    /\ out.hit
    /\ out.ids # {}
    /\ \E d \in Ids : documents[d].tenant \notin {NoTenant, out.tenant}

\* C20: a document with is_deleted = true is in no response of the default
\* listings (v1, v2), a get by id of its tenant returns it, and the bulk
\* restore action of its tenant clears is_deleted.
C20_DeletedHiddenButAddressable ==
    [][/\ out'.op \in {"list_v1", "list_v2"} =>
            \A d \in out'.ids : ~documents[d].is_deleted
       /\ \A t \in Tenants, d \in Ids :
            (GetRow(t, d) /\ documents[d].tenant = t
                          /\ documents[d].is_deleted)
                => (out'.code = 200 /\ d \in out'.ids)
       /\ \A c \in Writers, t \in Tenants, ids \in BulkIdSets :
            BulkCommit(c, t, "restore", ids) =>
                \A d \in ids : documents[d].tenant = t
                                  => ~documents'[d].is_deleted]_vars

(***************************************************************************)
(* Claims about the upload and bulk handlers, for SpecApi and Spec.        *)
(***************************************************************************)
\* The positions of a bulk request's id list whose id names no document of
\* the caller's tenant.
NotOwn(t, ids) ==
    {i \in 1..Len(ids) : \/ ids[i] \notin DocIds
                         \/ docs[ids[i]].row # "live"
                         \/ DocumentTenant(ids[i]) # t}

\* C15: in the response of every bulk action request total_requested is the
\* number of ids submitted and succeeded + failed + skipped equals it; the
\* ids that do not exist or belong to another tenant are among the skipped
\* and never among the failed; an archive request reports the ids of the
\* caller's documents as succeeded, the others as skipped, and failed = 0.
C15_BulkCountersAddUp ==
    [][\A t \in Tenants, action \in BulkActions,
          ids \in BulkIdListsUpTo(MaxBulkApi) :
          \A down \in BrokerDown(action, ids) :
            bulk_document_action(t, action, ids, down) =>
              LET m == Cardinality(NotOwn(t, ids)) IN
              /\ resp'.total_requested = Len(ids)
              /\ resp'.succeeded + resp'.failed + resp'.skipped = Len(ids)
              /\ resp'.skipped >= m
              /\ resp'.failed <= Len(ids) - m
              /\ action = "archive" =>
                    /\ resp'.succeeded = Len(ids) - m
                    /\ resp'.skipped = m
                    /\ resp'.failed = 0]_vars

\* C15 witness: a bulk response for two ids, one succeeded and one skipped.
C15_Witness ==
    /\ resp.op = "bulk"
    /\ resp.total_requested = 2
    /\ resp.succeeded = 1
    /\ resp.skipped = 1
    /\ resp.failed = 0

\* C16: a bulk request that reports no document as succeeded leaves every
\* document and the queue as they were, and a reprocess request that
\* reports every id as succeeded leaves each of them pending, with no
\* error_message and with a job newly enqueued for it.
C16_BulkItemAllOrNothing ==
    [][\A t \in Tenants, action \in BulkActions,
          ids \in BulkIdListsUpTo(MaxBulkApi) :
          \A down \in BrokerDown(action, ids) :
            bulk_document_action(t, action, ids, down) =>
              /\ resp'.succeeded = 0 => (docs' = docs /\ jobs' = jobs)
              /\ (action = "reprocess" /\ resp'.succeeded = Len(ids)) =>
                    \A i \in 1..Len(ids) :
                      /\ docs'[ids[i]].status = "pending"
                      /\ docs'[ids[i]].error_message = "null"
                      /\ \E j \in JobIds : /\ jobs[j].st = "none"
                                           /\ jobs'[j].st = "queued"
                                           /\ jobs'[j].doc = ids[i]]_vars

\* C18: an upload whose file has a suffix outside the allowed set, more
\* than 10 MB of content, or no content is answered with 400 and writes
\* nothing: no Document row, no job, no Task row.
C18_InvalidUploadRejected ==
    [][\A d \in DocIds, file \in Files :
         (/\ upload_document(d, file)
          /\ \/ file.suffix \notin AllowedExtensions
             \/ file.size > MaxUploadSize
             \/ file.size = 0)
            => /\ resp'.code = 400
               /\ docs' = docs
               /\ jobs' = jobs
               /\ nextJob' = nextJob
               /\ tasks' = tasks]_vars

\* C18 witness: an upload was answered with 400.
C18_Witness ==
    /\ resp.op = "upload"
    /\ resp.code = 400

\* C19: the response to an upload for whose document a job was enqueued is
\* 201, and at the time of the response that job is still on the queue.
C19_UploadReturns201AfterEnqueue ==
    (/\ resp.op = "upload"
     /\ resp.doc # NoDoc
     /\ \E j \in JobIds : jobs[j].st # "none" /\ jobs[j].doc = resp.doc)
        => /\ resp.code = 201
           /\ \A j \in JobIds : jobs[j].doc = resp.doc => jobs[j].st = "queued"

(***************************************************************************)
(* Claims about the cache manager, for SpecCacheManager.                   *)
(***************************************************************************)
\* C14: a CacheManager operation (get, set, delete, invalidate_namespace,
\* exists, increment, get_ttl) called while the client is uninitialised or
\* the backend unreachable raises nothing and returns None, False, 0 or -1.
C14_CacheOperationsFailOpen ==
    (ret.op \in CacheOperations /\ ret.client # "up")
        => /\ ~ret.raised
           /\ ret.value \in {None, PyBool(FALSE), PyInt(0), PyInt(-1)}

(***************************************************************************)
(* Further claims about the pipeline, for Spec.                            *)
(***************************************************************************)
\* The jobs of document d that are outstanding: on the queue, scheduled for
\* a retry, or running.
Outstanding(d) ==
    {j \in JobIds : jobs[j].doc = d /\ jobs[j].st \in {"queued", "retry", "running"}}

\* C28: at any moment a document has at most one outstanding
\* process_document job (queued, scheduled for retry or running).
C28_OneOutstandingJobPerDocument ==
    \A d \in DocIds : Cardinality(Outstanding(d)) <= 1

\* C29: every document in status completed has error_message null.
C29_CompletedHasNoError ==
    \A d \in DocIds :
        (docs[d].row = "live" /\ docs[d].status = "completed")
            => docs[d].error_message = "null"

\* C27: a Task row becomes success only in the commit of its own running
\* attempt that also makes the Document completed with
\* processing_completed_at set; a Task in success belongs to a Document that
\* was completed (or hard-deleted since); and the attempt's commit that
\* completes the Document makes its Task success with progress 100.
C27_SuccessCommittedWithCompletion ==
    [][\A j \in JobIds :
         LET d == jobs[j].doc IN
         /\ (tasks'[j].status = "success" /\ tasks[j].status # "success") =>
               /\ jobs[j].st = "running"
               /\ docs'[d].status = "completed"
               /\ docs'[d].processing_completed_at = "set"
         /\ (tasks'[j].rows > 0 /\ tasks'[j].status = "success") =>
               \/ docs'[tasks'[j].resource_id].row = "gone"
               \/ docs'[tasks'[j].resource_id].processing_completed_at = "set"
         /\ (FinalUpdate(j) /\ docs' # docs) =>
               /\ docs'[d].status = "completed"
               /\ tasks'[j].status = "success"
               /\ tasks'[j].progress = 100]_vars

\* C27 witness: an attempt has committed its Task as success and its
\* Document as completed.
C27_Witness ==
    \E j \in JobIds :
        /\ tasks[j].rows > 0
        /\ tasks[j].status = "success"
        /\ tasks[j].progress = 100
        /\ docs[tasks[j].resource_id].status = "completed"
        /\ docs[tasks[j].resource_id].processing_completed_at = "set"

\* C24: the extraction and page-counting steps, failing or not, leave the
\* Document as it is, keep the attempt running and schedule no retry; the
\* final update of an attempt whose extraction or page count failed still
\* commits the Document completed and the Task success, with text_content
\* null after a failed extraction and page_count null after a failed count.
C24_ExtractionFailureIsNotFatal ==
    [][\A j \in JobIds :
         LET d == jobs[j].doc IN
         /\ (ExtractText(j) \/ CountPages(j)) =>
               /\ docs' = docs
               /\ jobs'[j].st = "running"
               /\ jobs'[j].retries = jobs[j].retries
               /\ tasks'[j].status = tasks[j].status
         /\ (/\ FinalUpdate(j)
             /\ docs[d].row = "live"
             /\ jobs[j].text = Null \/ jobs[j].pages = Null) =>
               /\ docs'[d].status = "completed"
               /\ tasks'[j].status = "success"
               /\ jobs[j].text = Null => docs'[d].text_content = Null
               /\ jobs[j].pages = Null => docs'[d].page_count = Null]_vars

\* C24 witness: a PDF whose extraction and page count both failed is
\* completed, with its Task in success.
C24_Witness ==
    \E j \in JobIds :
        /\ jobs[j].st = "success"
        /\ jobs[j].text = Null
        /\ jobs[j].pages = Null
        /\ tasks[j].status = "success"
        /\ DocumentType(jobs[j].doc) = "pdf"
        /\ docs[jobs[j].doc].status = "completed"
        /\ docs[jobs[j].doc].text_content = Null
        /\ docs[jobs[j].doc].page_count = Null

\* C23: a job is scheduled for a retry only by the step in which its running
\* attempt ends, and that step commits the failure: the Task row is in retry
\* with retry_count incremented and the Document, if the attempt had fetched
\* it, is failed.  A retried attempt starts only from a scheduled retry, when
\* no attempt of the job is running and the Task row shows the failure.
C23_RetryAfterCommittedFailure ==
    [][\A j \in JobIds :
         LET d == jobs[j].doc IN
         /\ (jobs'[j].st = "retry" /\ jobs[j].st # "retry") =>
               /\ jobs[j].st = "running"
               /\ jobs'[j].pc = "none"
               /\ tasks'[j].status = "retry"
               /\ tasks'[j].retry_count = tasks[j].retry_count + 1
               /\ jobs[j].pc # "fetch" => docs'[d].status = "failed"
         /\ (StartAttempt(j) /\ jobs[j].retries > 0) =>
               /\ jobs[j].st = "retry"
               /\ jobs[j].pc = "none"
               /\ tasks[j].status = "retry"
               /\ tasks[j].retry_count >= 1]_vars

\* C23 witness: a retry that was scheduled has been delivered.
C23_Witness ==
    \E j \in JobIds :
        /\ jobs[j].retries >= 1
        /\ jobs[j].deliveries >= 2
        /\ jobs[j].st = "failed"
        /\ tasks[j].status = "retry"

(***************************************************************************)
(* Claims about the pipeline under fair scheduling, for SpecLive.          *)
(***************************************************************************)
\* C22: under fair scheduling of the worker and the sweep, every document
\* that is pending or processing eventually is completed or failed.
C22_EveryDocumentSettles ==
    \A d \in DocIds :
        (docs[d].row = "live" /\ docs[d].status \in {"pending", "processing"})
            ~> (docs[d].status \in {"completed", "failed"})

(***************************************************************************)
(* Further claims about the cursor pagination, for SpecCursor.             *)
(***************************************************************************)
\* The rows that match beyond the position of the cursor.
Matching(cursor) == {r \in Present : CursorFilter(cursor, r)}

\* C25: a request that raises nothing returns at most limit items, all of
\* them matching rows; its next_cursor is non-null exactly when more than
\* limit rows match beyond the cursor position; an empty result has no
\* next_cursor.
C25_PageSizeAndHasNext ==
    [][(page' # page /\ ~page'.raised) =>
          /\ Len(page'.items) <= page'.limit
          /\ \A i \in DOMAIN page'.items : page'.items[i] \in Matching(page'.cursor)
          /\ (page'.next_cursor # NoCursor)
                <=> (Cardinality(Matching(page'.cursor)) > page'.limit)
          /\ page'.next_cursor = NoCursor =>
                Len(page'.items) = Cardinality(Matching(page'.cursor))
          /\ page'.items = <<>> => page'.next_cursor = NoCursor]_vars

\* C25 witness: a request with a cursor returned a full page and a
\* next_cursor.
C25_Witness ==
    /\ page.cursor.kind # "none"
    /\ ~page.raised
    /\ Len(page.items) = page.limit
    /\ page.next_cursor # NoCursor

\* The created_at values of the rows of the table are pairwise distinct.
DistinctCreatedAt ==
    \A r, q \in Present : r # q => table[r] # table[q]

\* C30: on a fixed snapshot with distinct created_at values, the request of
\* the prev_cursor of page k >= 2 of a forward iteration, with the same
\* limit, returns exactly the items of page k-1.
C30_PrevCursorReturnsPreviousPage ==
    [][(/\ PrevPage
        /\ DistinctCreatedAt
        /\ iter.snap = Present)
          => LET n == Len(iter.seen) - Len(page.items)
             IN  /\ ~page'.raised
                 /\ page'.items = SubSeq(iter.seen, n - iter.limit + 1, n)]_vars

(***************************************************************************)
(* Claims about the rate limiter, for SpecRateLimit.                       *)
(***************************************************************************)
\* The backend key of the counter of an identifier and limit type.
CounterKey(identifier, limit_type) ==
    build_key(RATE_LIMITS[limit_type].key_prefix,
              RateLimitKey(identifier, limit_type))

\* C21, as stated: within the lifetime of a counter at most `requests` calls
\* of check_rate_limit are admitted, and every call after `requests` were
\* admitted is rejected with 429, the limit, remaining 0 and retry-after
\* equal to the counter's remaining TTL.
C21_AtMostRequestsAdmitted ==
    [][\A identifier \in Identifiers, limit_type \in LimitTypes :
         check_rate_limit(identifier, limit_type) =>
            LET config == RATE_LIMITS[limit_type]
                cache_key == CounterKey(identifier, limit_type)
            IN  /\ rl'.admitted <= config.requests
                /\ (redis[cache_key].present /\ rl.admitted >= config.requests) =>
                      /\ rl'.out.status = 429
                      /\ rl'.out.limit = config.requests
                      /\ rl'.out.remaining = 0
                      /\ rl'.out.retry_after = redis'[cache_key].ttl]_vars

\* C21, amended: within the lifetime of a counter at most `requests` of the
\* calls that reached the backend are admitted; a call that reaches the
\* backend after `requests` such calls is rejected with 429, the limit,
\* remaining 0 and, when get_ttl reaches the backend too, retry-after equal
\* to the counter's remaining TTL; a call that reaches the backend before
\* that is admitted; a call that cannot reach the backend is admitted.
C21_AtMostRequestsCounted ==
    [][\A identifier \in Identifiers, limit_type \in LimitTypes :
         check_rate_limit(identifier, limit_type) =>
            LET config == RATE_LIMITS[limit_type]
                cache_key == CounterKey(identifier, limit_type)
                counted == IF redis[cache_key].present
                           THEN rl.admitted - rl.failed_open ELSE 0
            IN  /\ rl'.admitted - rl'.failed_open <= config.requests
                /\ (client = "up" /\ counted >= config.requests) =>
                      /\ rl'.out.status = 429
                      /\ rl'.out.limit = config.requests
                      /\ rl'.out.remaining = 0
                      /\ client' = "up" =>
                            rl'.out.retry_after = redis'[cache_key].ttl
                /\ (client = "up" /\ counted < config.requests) =>
                      /\ rl'.out.status = 200
                      /\ rl'.out.limit = config.requests
                      /\ rl'.out.remaining = config.requests - counted - 1
                /\ client # "up" => rl'.out.status = 200]_vars

\* C21 witness: a call was rejected after exactly `requests` calls were
\* admitted, none of them because the backend was down.
C21_Witness ==
    /\ rl.out.status = 429
    /\ rl.out.retry_after = RateLimitWindow
    /\ rl.admitted = RateLimitRequests
    /\ rl.failed_open = 0

\* C26: a counter does not outlive the window that began with the call that
\* created it: while it exists, less than `window` seconds have passed since
\* that call.
C26_CounterExpiresWithItsWindow ==
    \A identifier \in Identifiers, limit_type \in LimitTypes :
        redis[CounterKey(identifier, limit_type)].present
            => rl.age < RATE_LIMITS[limit_type].window

====
